---- MODULE Spec2Model ----
(***************************************************************************)
(* Event aggregator: an asyncio queue drained by a pool of worker tasks,   *)
(* in front of an SQLite ledger of processed (topic, event_id) keys.       *)
(*                                                                         *)
(* One action is one run of a coroutine between two suspension points of   *)
(* the event loop.  publish() and start() never suspend (Queue.put on an   *)
(* unbounded queue returns at once), so each is a single step.  stop()     *)
(* suspends in gather(); a worker suspends in wait_for(queue.get()) and in *)
(* the sleep that follows a successful mark.                               *)
(***************************************************************************)
EXTENDS Integers, Sequences, FiniteSets, Bags, TLC

\* ---------------------------------------------------------------- bounds
\* calls made from outside in one run, all together: start(), stop(),
\* publish(), clear(), get_events() and direct mark_processed() calls, and the
\* store failures that hit a worker
MaxCalls == 3
\* events handed to publish() in one run, over all calls
MaxEvents == 2
\* process restarts in one run
MaxRestarts == 1
\* ticks of the clock
MaxTime == 1

\* ------------------------------------------------------ program constants
\* aggregator.py:35   for i in range(5)
NumWorkers == 5

\* ------------------------------------------------------------ input sets
Topics == {"a", "b"}
EventIds == {"e1", "e2"}

Keys == Topics \X EventIds

\* models.Event, reduced to the fields the core reads: one event_id used in two
\* topics, and two events of one key that differ in their timestamp
Event(topic, event_id, timestamp) ==
    [topic |-> topic, event_id |-> event_id, timestamp |-> timestamp]

Events == {Event("a", "e1", 1), Event("a", "e1", 2), Event("b", "e1", 1)}

\* the events a caller of the store may mark: a second key in topic a as well
StoreEvents == Events \cup {Event("a", "e2", 1)}

KeyOf(e) == <<e.topic, e.event_id>>

\* an item of the queue: the Event object, and seq, which tells the objects
\* apart: the n-th event handed to publish() of this aggregator has seq = n
Item(event, seq) == [event |-> event, seq |-> seq]

NoItem == Item(Event("", "", 0), 0)

RECURSIVE SeqsUpTo(_, _)
SeqsUpTo(S, n) ==
    IF n = 0 THEN {<<>>}
    ELSE LET shorter == SeqsUpTo(S, n - 1)
         IN shorter \cup {Append(s, x) : s \in shorter, x \in S}

\* the lists a caller may hand to publish()
Batches == SeqsUpTo(Events, MaxEvents)

VARIABLES
    store,           \* rows of table processed_events, in insertion order
    queue,           \* EventAggregator.queue
    stats,           \* EventAggregator.stats
    running,         \* EventAggregator.running
    consumer_tasks,  \* which start() built the current task list; 0 = []
    workers,         \* bag of live _consume_events tasks
    stopWaits,       \* the stop() calls suspended in gather(), one frame each
    result,          \* value returned by the last publish() call
    now,             \* wall clock
    calls,           \* history: calls and restarts made, events handed to publish()
    markLog,         \* history: per key, what mark_processed returned since clear()
    published,       \* history: per key, events handed to publish() of this aggregator
    accepted,        \* history: per key, events this aggregator enqueued
    priorKeys,       \* history: keys processed before this aggregator was built
    startedAt,       \* history: the clock when start() last set the running flag
    listing          \* value returned by the last get_events() call

vars == <<store, queue, stats, running, consumer_tasks, workers, stopWaits,
          result, now, calls, markLog, published, accepted, priorKeys, startedAt,
          listing>>

\* ------------------------------------------------------------ DedupStore

\* mutant: the schema is dropped and created again on every open
_init_db_recreate(rows) == <<>>

\* CREATE TABLE IF NOT EXISTS: an existing table keeps its rows
_init_db(rows) == rows

HasKey(rows, topic, event_id) ==
    \E i \in 1..Len(rows) : rows[i].topic = topic /\ rows[i].event_id = event_id

\* mutant: the lookup filters on the event_id alone
is_duplicate_id_only(rows, topic, event_id) ==
    \E i \in 1..Len(rows) : rows[i].event_id = event_id

\* SELECT 1 ... WHERE topic = ? AND event_id = ?
is_duplicate(rows, topic, event_id) == HasKey(rows, topic, event_id)

\* mutant: the table declared without its primary key
PrimaryKeyOk_none(rows, topic, event_id) == TRUE

\* PRIMARY KEY (topic, event_id): the INSERT raises IntegrityError on a clash
PrimaryKeyOk(rows, topic, event_id) == ~HasKey(rows, topic, event_id)

\* mutant: INSERT OR REPLACE, which overwrites the row and reports success
mark_processed_replace(rows, topic, event_id, timestamp, clock) ==
    [rows |-> Append(SelectSeq(rows, LAMBDA r : <<r.topic, r.event_id>> # <<topic, event_id>>),
                     [topic |-> topic, event_id |-> event_id,
                      timestamp |-> timestamp, processed_at |-> clock]),
     ret |-> TRUE]

\* mutant: an upsert that refreshes the row of a known key and reports False
mark_processed_touch(rows, topic, event_id, timestamp, clock) ==
    IF PrimaryKeyOk(rows, topic, event_id)
    THEN [rows |-> Append(rows, [topic |-> topic, event_id |-> event_id,
                                 timestamp |-> timestamp, processed_at |-> clock]),
          ret |-> TRUE]
    ELSE [rows |-> [i \in 1..Len(rows) |->
                       IF <<rows[i].topic, rows[i].event_id>> = <<topic, event_id>>
                       THEN [rows[i] EXCEPT !.timestamp = timestamp,
                                            !.processed_at = clock]
                       ELSE rows[i]],
          ret |-> FALSE]

\* INSERT a row stamped with the clock; IntegrityError -> False
mark_processed(rows, topic, event_id, timestamp, clock) ==
    IF PrimaryKeyOk(rows, topic, event_id)
    THEN [rows |-> Append(rows, [topic |-> topic, event_id |-> event_id,
                                 timestamp |-> timestamp, processed_at |-> clock]),
          ret |-> TRUE]
    ELSE [rows |-> rows, ret |-> FALSE]

StoreKeys(rows) == {<<rows[i].topic, rows[i].event_id>> : i \in 1..Len(rows)}

RowsOf(rows, k) == {i \in 1..Len(rows) : <<rows[i].topic, rows[i].event_id>> = k}

\* the topic argument left out (None); the empty string takes the same branch
\* of "if topic:"
NoTopic == ""

\* WHERE topic = ?, or no WHERE clause
SelectRows(rows, topic) ==
    IF topic # NoTopic THEN SelectSeq(rows, LAMBDA r : r.topic = topic) ELSE rows

\* SELECT topic, event_id, timestamp, processed_at: a row as fetchall() gives it
RowTuple(r) == <<r.topic, r.event_id, r.timestamp, r.processed_at>>

\* the orders ORDER BY processed_at may return rows in: rows with equal
\* processed_at come in an order SQL leaves open.  The column holds the
\* isoformat() text of a UTC time, which sorts as the time does.
OrdersOf(rows, descending) ==
    {p \in [1..Len(rows) -> 1..Len(rows)] :
        /\ \A i, j \in 1..Len(rows) : i # j => p[i] # p[j]
        /\ \A i, j \in 1..Len(rows) :
               i < j => IF descending
                        THEN rows[p[i]].processed_at >= rows[p[j]].processed_at
                        ELSE rows[p[i]].processed_at <= rows[p[j]].processed_at}

\* mutant: ORDER BY processed_at without DESC
get_processed_events_ascending(rows, topic) ==
    LET sel == SelectRows(rows, topic)
    IN {[i \in 1..Len(sel) |-> RowTuple(sel[p[i]])] : p \in OrdersOf(sel, FALSE)}

\* the lists get_processed_events(topic) may return
get_processed_events(rows, topic) ==
    LET sel == SelectRows(rows, topic)
    IN {[i \in 1..Len(sel) |-> RowTuple(sel[p[i]])] : p \in OrdersOf(sel, TRUE)}

\* SELECT COUNT(*), and SELECT topic, COUNT(*) ... GROUP BY topic
store_get_stats(rows) ==
    [total_unique |-> Len(rows),
     topics |-> [t \in {rows[i].topic : i \in 1..Len(rows)} |->
                    Cardinality({i \in 1..Len(rows) : rows[i].topic = t})]]

\* ------------------------------------------------------- EventAggregator

NewStats(clock) ==
    [received |-> 0, unique_processed |-> 0, duplicate_dropped |-> 0,
     start_time |-> clock]

NewResult == [accepted |-> 0, rejected |-> 0, duplicates_immediate |-> 0]

Worker(g, pc, ev) == [gen |-> g, pc |-> pc, ev |-> ev]

One(w) == SetToBag({w})

LiveWorkers == BagToSet(workers)

CallsMade ==
    calls.start + calls.stop + calls.publish + calls.clear + calls.fail
        + calls.mark + calls.query

\* startedAt before any start() call
NoTime == -1

\* the database file at the first start of the process: new, or left by an
\* earlier run that processed one event
InitialStores ==
    {<<>>, <<[topic |-> "a", event_id |-> "e1", timestamp |-> 1, processed_at |-> 0]>>}

Init ==
    /\ \E rows \in InitialStores : store = _init_db(rows)
    /\ queue = <<>>
    /\ stats = NewStats(0)
    /\ running = FALSE
    /\ consumer_tasks = 0
    /\ workers = EmptyBag
    /\ stopWaits = {}
    /\ result = NewResult
    /\ now = 0
    /\ calls = [start |-> 0, stop |-> 0, publish |-> 0, restart |-> 0, events |-> 0,
                clear |-> 0, fail |-> 0, mark |-> 0, query |-> 0]
    /\ markLog = [k \in Keys |-> IF k \in StoreKeys(store) THEN <<TRUE>> ELSE <<>>]
    /\ published = [k \in Keys |-> 0]
    /\ accepted = [k \in Keys |-> 0]
    /\ priorKeys = StoreKeys(store)
    /\ startedAt = NoTime
    /\ listing = <<>>

\* mutant: start() without the test of the running flag
StartEffect_unguarded(isRunning, tasks) ==
    [running |-> TRUE, tasks |-> tasks + 1, spawn |-> NumWorkers]

\* which task list start() leaves in consumer_tasks, and which tasks it spawns
StartEffect(isRunning, tasks) ==
    IF ~isRunning
    THEN [running |-> TRUE, tasks |-> tasks + 1, spawn |-> NumWorkers]
    ELSE [running |-> isRunning, tasks |-> tasks, spawn |-> 0]

start ==
    /\ CallsMade < MaxCalls
    /\ calls' = [calls EXCEPT !.start = @ + 1]
    /\ LET eff == StartEffect(running, consumer_tasks)
       IN /\ running' = eff.running
          /\ consumer_tasks' = eff.tasks
          /\ workers' = IF eff.spawn = 0 THEN workers
                        ELSE workers (+) [w \in {Worker(eff.tasks, "loop", NoItem)}
                                            |-> eff.spawn]
          /\ startedAt' = IF eff.spawn = 0 THEN startedAt ELSE now
    /\ UNCHANGED <<store, queue, stats, stopWaits, result, now, markLog,
                   published, accepted, priorKeys, listing>>

\* the frame of a stop() call suspended at line 43: the task list it gathers;
\* history: whether the flag was set at the call, how many events publish() had
\* been handed by then, and how many of them were still in the queue
StopFrame(tasks, wasRunning, seen, backlog) ==
    [tasks |-> tasks, wasRunning |-> wasRunning, seen |-> seen, backlog |-> backlog]

\* stop(): clear the flag, then wait in gather() unless the task list is empty
stop ==
    /\ CallsMade < MaxCalls
    /\ calls' = [calls EXCEPT !.stop = @ + 1]
    /\ running' = FALSE
    /\ stopWaits' = IF consumer_tasks # 0
                    THEN stopWaits \cup {StopFrame(consumer_tasks, running,
                                                   stats.received, Len(queue))}
                    ELSE stopWaits
    /\ UNCHANGED <<store, queue, stats, consumer_tasks, workers, result, now,
                   markLog, published, accepted, priorKeys, startedAt, listing>>

\* gather() is done once every task of the list has finished
GatherDone(g) == \A w \in LiveWorkers : w.gen # g

\* line 43 returns: the stop() call completes
stop_return(c) ==
    /\ c \in stopWaits
    /\ GatherDone(c.tasks)
    /\ stopWaits' = stopWaits \ {c}
    /\ UNCHANGED <<store, queue, stats, running, consumer_tasks, workers, result,
                   now, calls, markLog, published, accepted, priorKeys, startedAt, listing>>

\* mutant: the continue of line 62 is missing: a rejected event is enqueued too
RECURSIVE publish_loop_no_continue(_, _, _)
publish_loop_no_continue(events, rows, acc) ==
    IF events = <<>> THEN acc
    ELSE LET event == Head(events)
             k == KeyOf(event)
             seen == [acc EXCEPT !.stats.received = @ + 1,
                                 !.published[k] = @ + 1]
             dup ==
                 IF is_duplicate(rows, event.topic, event.event_id)
                 THEN [seen EXCEPT !.result.duplicates_immediate = @ + 1,
                                   !.result.rejected = @ + 1,
                                   !.stats.duplicate_dropped = @ + 1]
                 ELSE seen
             next == [dup EXCEPT !.queue = Append(@, Item(event, seen.stats.received)),
                                 !.result.accepted = @ + 1,
                                 !.accepted[k] = @ + 1]
         IN publish_loop_no_continue(Tail(events), rows, next)

\* mutant: received is counted after the duplicate test, past the continue
RECURSIVE publish_loop_counts_late(_, _, _)
publish_loop_counts_late(events, rows, acc) ==
    IF events = <<>> THEN acc
    ELSE LET event == Head(events)
             k == KeyOf(event)
             seen == [acc EXCEPT !.published[k] = @ + 1]
             next ==
                 IF is_duplicate(rows, event.topic, event.event_id)
                 THEN [seen EXCEPT !.result.duplicates_immediate = @ + 1,
                                   !.result.rejected = @ + 1,
                                   !.stats.duplicate_dropped = @ + 1]
                 ELSE [seen EXCEPT !.stats.received = @ + 1,
                                   !.queue = Append(@, Item(event, seen.stats.received + 1)),
                                   !.result.accepted = @ + 1,
                                   !.accepted[k] = @ + 1]
         IN publish_loop_counts_late(Tail(events), rows, next)

\* the for loop of publish(): acc carries stats, queue, result and the history
RECURSIVE publish_loop(_, _, _)
publish_loop(events, rows, acc) ==
    IF events = <<>> THEN acc
    ELSE LET event == Head(events)
             k == KeyOf(event)
             seen == [acc EXCEPT !.stats.received = @ + 1,
                                 !.published[k] = @ + 1]
             next ==
                 IF is_duplicate(rows, event.topic, event.event_id)
                 THEN [seen EXCEPT !.result.duplicates_immediate = @ + 1,
                                   !.result.rejected = @ + 1,
                                   !.stats.duplicate_dropped = @ + 1]
                 ELSE [seen EXCEPT !.queue = Append(@, Item(event, seen.stats.received)),
                                   !.result.accepted = @ + 1,
                                   !.accepted[k] = @ + 1]
         IN publish_loop(Tail(events), rows, next)

publish(events) ==
    /\ CallsMade < MaxCalls
    /\ calls.events + Len(events) <= MaxEvents
    /\ calls' = [calls EXCEPT !.publish = @ + 1, !.events = @ + Len(events)]
    /\ LET out == publish_loop(events, store,
                               [stats |-> stats, queue |-> queue, result |-> NewResult,
                                published |-> published, accepted |-> accepted])
       IN /\ stats' = out.stats
          /\ queue' = out.queue
          /\ result' = out.result
          /\ published' = out.published
          /\ accepted' = out.accepted
    /\ UNCHANGED <<store, running, consumer_tasks, workers, stopWaits, now,
                   markLog, priorKeys, startedAt, listing>>

\* ------------------------------------------------------ _consume_events

\* mutant: the loop ends as soon as the flag is cleared
LoopCondition_running_only(isRunning, q) == isRunning

\* mutant: the loop ends as soon as the queue is found empty
LoopCondition_queue_only(isRunning, q) == q # <<>>

\* line 73: the loop goes on while running or the queue is non-empty
LoopCondition(isRunning, q) == isRunning \/ q # <<>>

\* line 73 false: the task finishes
consume_exit(w) ==
    /\ w \in LiveWorkers
    /\ w.pc = "loop"
    /\ ~LoopCondition(running, queue)
    /\ workers' = workers (-) One(w)
    /\ UNCHANGED <<store, queue, stats, running, consumer_tasks, stopWaits, result,
                   now, calls, markLog, published, accepted, priorKeys, startedAt, listing>>

\* mutant: get() hands over the newest item, as a LifoQueue would
QueueGet_lifo(q) == [item |-> q[Len(q)], rest |-> SubSeq(q, 1, Len(q) - 1)]

\* asyncio.Queue.get() on a non-empty queue: the oldest item leaves the queue
QueueGet(q) == [item |-> Head(q), rest |-> Tail(q)]

\* lines 73-75: the loop test passes and wait_for(queue.get(), 0.1) hands over
\* the head of the queue.  A wait that times out (lines 78-79) comes back to the
\* loop test with nothing changed, so it is a stuttering step.
consume_get(w) ==
    /\ w \in LiveWorkers
    /\ w.pc = "loop"
    /\ LoopCondition(running, queue)
    /\ queue # <<>>
    /\ LET got == QueueGet(queue)
       IN /\ queue' = got.rest
          /\ workers' = (workers (-) One(w)) (+) One(Worker(w.gen, "got", got.item))
    /\ UNCHANGED <<store, stats, running, consumer_tasks, stopWaits, result, now,
                   calls, markLog, published, accepted, priorKeys, startedAt, listing>>

\* mutant: a duplicate found at mark time is not counted
CountMark_drops_duplicate(st, was_new) ==
    IF was_new
    THEN [stats |-> [st EXCEPT !.unique_processed = @ + 1], pc |-> "sleep"]
    ELSE [stats |-> st, pc |-> "loop"]

\* mutant: the result of mark_processed is ignored
CountMark_always_new(st, was_new) ==
    [stats |-> [st EXCEPT !.unique_processed = @ + 1], pc |-> "sleep"]

\* lines 93-100: which counter a mark result moves, and whether the task sleeps
CountMark(st, was_new) ==
    IF was_new
    THEN [stats |-> [st EXCEPT !.unique_processed = @ + 1], pc |-> "sleep"]
    ELSE [stats |-> [st EXCEPT !.duplicate_dropped = @ + 1], pc |-> "loop"]

\* line 76: _process_event up to its await (or to its end, for a duplicate)
_process_event(w) ==
    /\ w \in LiveWorkers
    /\ w.pc = "got"
    /\ LET event == w.ev.event
           m == mark_processed(store, event.topic, event.event_id,
                               event.timestamp, now)
           c == CountMark(stats, m.ret)
       IN /\ store' = m.rows
          /\ stats' = c.stats
          /\ markLog' = [markLog EXCEPT ![KeyOf(event)] = Append(@, m.ret)]
          /\ workers' = (workers (-) One(w)) (+) One(Worker(w.gen, c.pc, NoItem))
    /\ UNCHANGED <<queue, running, consumer_tasks, stopWaits, result, now, calls,
                   published, accepted, priorKeys, startedAt, listing>>

\* mutant: the exception is caught outside the while loop and ends the task
AfterError_task_ends(g) == EmptyBag

\* lines 80-81: the exception is caught and logged inside the loop; the task
\* goes back to the loop test
AfterError(g) == One(Worker(g, "loop", NoItem))

\* line 76 raises: mark_processed fails inside the store (a locked or full
\* database raises sqlite3.OperationalError): no row is inserted, no counter
\* moves, and line 77 is skipped
_process_event_raises(w) ==
    /\ CallsMade < MaxCalls
    /\ w \in LiveWorkers
    /\ w.pc = "got"
    /\ calls' = [calls EXCEPT !.fail = @ + 1]
    /\ workers' = (workers (-) One(w)) (+) AfterError(w.gen)
    /\ UNCHANGED <<store, queue, stats, running, consumer_tasks, stopWaits, result,
                   now, markLog, published, accepted, priorKeys, startedAt, listing>>

\* line 97 returns, line 77 task_done(); back to the loop test
consume_task_done(w) ==
    /\ w \in LiveWorkers
    /\ w.pc = "sleep"
    /\ workers' = (workers (-) One(w)) (+) One(Worker(w.gen, "loop", NoItem))
    /\ UNCHANGED <<store, queue, stats, running, consumer_tasks, stopWaits, result,
                   now, calls, markLog, published, accepted, priorKeys, startedAt, listing>>

\* ------------------------------------------------------------ environment

\* the process ends after a completed stop(); a new DedupStore and a new
\* EventAggregator are built on the same database file
restart ==
    /\ calls.restart < MaxRestarts
    /\ ~running
    /\ workers = EmptyBag
    /\ stopWaits = {}
    /\ calls' = [calls EXCEPT !.restart = @ + 1]
    /\ store' = _init_db(store)
    /\ queue' = <<>>
    /\ stats' = NewStats(now)
    /\ running' = FALSE
    /\ consumer_tasks' = 0
    /\ workers' = EmptyBag
    /\ stopWaits' = {}
    /\ result' = NewResult
    /\ published' = [k \in Keys |-> 0]
    /\ accepted' = [k \in Keys |-> 0]
    /\ priorKeys' = StoreKeys(store)
    /\ startedAt' = NoTime
    /\ UNCHANGED <<now, markLog, listing>>

\* DedupStore.clear(): DELETE FROM processed_events
clear ==
    /\ CallsMade < MaxCalls
    /\ calls' = [calls EXCEPT !.clear = @ + 1]
    /\ store' = <<>>
    /\ markLog' = [k \in Keys |-> <<>>]
    /\ UNCHANGED <<queue, stats, running, consumer_tasks, workers, stopWaits,
                   result, now, published, accepted, priorKeys, startedAt, listing>>

\* a step of the wall clock; the clock stands still in Spec, whose properties
\* do not read it
tick ==
    /\ now < MaxTime
    /\ now' = now + 1
    /\ UNCHANGED <<store, queue, stats, running, consumer_tasks, workers, stopWaits,
                   result, calls, markLog, published, accepted, priorKeys, startedAt, listing>>

\* a caller of the store marks an event itself: DedupStore.mark_processed
store_mark(event) ==
    /\ CallsMade < MaxCalls
    /\ calls' = [calls EXCEPT !.mark = @ + 1]
    /\ LET m == mark_processed(store, event.topic, event.event_id,
                               event.timestamp, now)
       IN /\ store' = m.rows
          /\ markLog' = [markLog EXCEPT ![KeyOf(event)] = Append(@, m.ret)]
    /\ UNCHANGED <<queue, stats, running, consumer_tasks, workers, stopWaits, result,
                   now, published, accepted, priorKeys, startedAt, listing>>

\* lines 118-126: a tuple of the store reshaped into a dict
Reshape(e) ==
    [topic |-> e[1], event_id |-> e[2], timestamp |-> e[3], processed_at |-> e[4]]

\* EventAggregator.get_events(topic)
get_events(topic) ==
    /\ CallsMade < MaxCalls
    /\ calls' = [calls EXCEPT !.query = @ + 1]
    /\ \E events \in get_processed_events(store, topic) :
           listing' = [i \in 1..Len(events) |-> Reshape(events[i])]
    /\ UNCHANGED <<store, queue, stats, running, consumer_tasks, workers, stopWaits,
                   result, now, markLog, published, accepted, priorKeys, startedAt>>

WorkerStep ==
    \E w \in LiveWorkers :
        \/ consume_exit(w)
        \/ consume_get(w)
        \/ _process_event(w)
        \/ consume_task_done(w)

Next ==
    \/ start
    \/ stop
    \/ \E c \in stopWaits : stop_return(c)
    \/ \E events \in Batches : publish(events)
    \/ WorkerStep
    \/ restart

Spec == Init /\ [][Next]_vars

\* the same, with the store's reset utility called from outside the aggregator
NextStore == Next \/ clear

StoreSpec == Init /\ [][NextStore]_vars

\* one life of an aggregator, from its construction on, with a store that can
\* fail under a worker; the scheduling is that of LiveSpec
NextFault ==
    \/ start
    \/ stop
    \/ \E c \in stopWaits : stop_return(c)
    \/ \E events \in Batches : publish(events)
    \/ WorkerStep
    \/ \E w \in LiveWorkers : _process_event_raises(w)

FaultSpec ==
    /\ Init /\ [][NextFault]_vars
    /\ WF_vars(WorkerStep)
    /\ WF_vars(\E c \in stopWaits : stop_return(c))

\* the same as Spec, with the clock running
NextClock == Next \/ tick

ClockSpec == Init /\ [][NextClock]_vars

\* the store on its own, under a running clock: its callers mark events,
\* clear it and list it
NextDedup ==
    \/ \E event \in StoreEvents : store_mark(event)
    \/ clear
    \/ tick
    \/ \E topic \in Topics \cup {NoTopic} : get_events(topic)

DedupSpec == Init /\ [][NextDedup]_vars

\* the event loop runs every task that is ready: a worker that can take a step
\* takes one, and a stop() whose gather() is done returns
LiveSpec ==
    /\ Spec
    /\ WF_vars(WorkerStep)
    /\ WF_vars(\E c \in stopWaits : stop_return(c))

\* ------------------------------------------------------------ vocabulary

\* EventAggregator.get_stats(): the StatsResponse it returns in this state
get_stats ==
    [received |-> stats.received,
     unique_processed |-> stats.unique_processed,
     duplicate_dropped |-> stats.duplicate_dropped,
     topics |-> store_get_stats(store).topics,
     uptime |-> now - stats.start_time]

InFlight == {w \in LiveWorkers : w.pc = "got"}

\* how many workers hold an event they have not counted yet
InFlightCount == BagCardinality([w \in InFlight |-> workers[w]])

\* queue empty and no worker between a get and its counter update
Drained == queue = <<>> /\ InFlight = {}

\* the seq of the events in the queue, and of those in the hands of a worker
QueueSeqs == {queue[i].seq : i \in 1..Len(queue)}

InFlightSeqs == {w.ev.seq : w \in InFlight}

\* the store was empty when this aggregator was built
FreshStore == priorKeys = {}

\* -------------------------------------------------------------- claims

\* C1: the store never holds two rows with one (topic, event_id) key, and of
\* the mark_processed calls made for a key since the last clear() the first
\* one, and only that one, returned true (so a key has a row exactly when a
\* call was made for it).
C1_OneRecordFirstMarkWins ==
    \A k \in Keys :
        /\ Cardinality(RowsOf(store, k)) <= 1
        /\ \A i \in 1..Len(markLog[k]) : markLog[k][i] = (i = 1)
        /\ (RowsOf(store, k) # {}) = (markLog[k] # <<>>)

\* two calls were made for one key, after a clear()
C1_Witness ==
    /\ calls.clear >= 1
    /\ \E k \in Keys : markLog[k] = <<TRUE, FALSE>>

\* C2: conservation: whenever the queue is empty and no worker holds an event
\* it has not counted yet, received = unique_processed + duplicate_dropped.
C2_Conservation ==
    Drained => stats.received = stats.unique_processed + stats.duplicate_dropped

\* a running aggregator has drained two publish calls, one event counted as
\* unique and one as a duplicate
C2_Witness ==
    /\ running
    /\ Drained
    /\ calls.publish = 2
    /\ stats.unique_processed = 1
    /\ stats.duplicate_dropped = 1

\* C3: idempotency: on a store that was empty when the aggregator was built,
\* once drained, a key published N >= 1 times has exactly one row, and if it
\* is the only key published then unique_processed = 1 and
\* duplicate_dropped = N - 1.
C3_Idempotency ==
    \A k \in Keys :
        (FreshStore /\ Drained /\ published[k] >= 1) =>
            /\ Cardinality(RowsOf(store, k)) = 1
            /\ published[k] = stats.received =>
                   /\ stats.unique_processed = 1
                   /\ stats.duplicate_dropped = published[k] - 1

\* one key was published twice in two calls, the second copy rejected at the
\* fast path
C3_Witness ==
    \E k \in Keys :
        /\ FreshStore
        /\ Drained
        /\ calls.publish = 2
        /\ published[k] = 2
        /\ accepted[k] = 1
        /\ stats.duplicate_dropped = 1

\* C4: duplicate race: when two copies of a key both passed the fast path and
\* the queue has drained, exactly one mark_processed for the key succeeded,
\* the first one; if the two copies are all the aggregator received, one is
\* in unique_processed and the other in duplicate_dropped.
C4_DuplicateRace ==
    \A k \in Keys :
        (accepted[k] = 2 /\ Drained) =>
            /\ markLog[k] = <<TRUE, FALSE>>
            /\ Cardinality(RowsOf(store, k)) = 1
            /\ stats.received = 2 =>
                   /\ stats.unique_processed = 1
                   /\ stats.duplicate_dropped = 1

\* both copies were enqueued, by one publish call, and both were marked
C4_Witness ==
    \E k \in Keys :
        /\ accepted[k] = 2
        /\ calls.publish = 1
        /\ Drained
        /\ markLog[k] = <<TRUE, FALSE>>
        /\ stats.duplicate_dropped = 1

\* C5: concurrent safety: on a store that was empty when the aggregator was
\* built, if no key was published twice then, once drained, the store holds
\* one row per event received, unique_processed = received and
\* duplicate_dropped = 0.
C5_DisjointKeys ==
    (FreshStore /\ Drained /\ \A k \in Keys : published[k] <= 1) =>
        /\ Len(store) = stats.received
        /\ stats.unique_processed = stats.received
        /\ stats.duplicate_dropped = 0

\* two publishers of one event each, with different keys, have been drained
C5_Witness ==
    /\ FreshStore
    /\ Drained
    /\ calls.publish = 2
    /\ stats.received = 2
    /\ \A k \in Keys : published[k] <= 1
    /\ Len(store) = 2

\* C6: restart persistence: every key processed before the restart is still
\* in the store; the new aggregator never enqueues an event with such a key;
\* and while such keys are all it has been handed, every event was rejected
\* at the fast path: unique_processed = 0, duplicate_dropped = received, and
\* the last publish call returned accepted = 0 and rejected =
\* duplicates_immediate.
C6_RestartPersistence ==
    /\ priorKeys \subseteq StoreKeys(store)
    /\ \A k \in priorKeys : accepted[k] = 0
    /\ (\A k \in Keys \ priorKeys : published[k] = 0) =>
          /\ queue = <<>>
          /\ stats.unique_processed = 0
          /\ stats.duplicate_dropped = stats.received
          /\ result.accepted = 0
          /\ result.rejected = result.duplicates_immediate

\* after a restart a key processed before it was published again
C6_Witness ==
    /\ calls.restart = 1
    /\ \E k \in priorKeys : published[k] = 1
    /\ stats.duplicate_dropped = 1
    /\ result.duplicates_immediate = 1

\* the frames a suspended stop() call can have
StopFrames ==
    [tasks : 1..MaxCalls, wasRunning : BOOLEAN, seen : 0..MaxEvents,
     backlog : 0..MaxEvents]

\* C7: every stop() call returns: a call suspended in gather() eventually
\* leaves it, whatever start(), stop() and publish() calls are made meanwhile
\* (a call made with an empty task list returns within its own step).
C7_StopAlwaysReturns ==
    \A c \in StopFrames : (c \in stopWaits) ~> (c \notin stopWaits)

C9_StartIdempotent ==
    [][(calls'.start = calls.start + 1 /\ running) =>
          UNCHANGED <<running, consumer_tasks, workers, queue, stats, store,
                      stopWaits, result>>]_vars

\* start() was called twice with no stop(): one task list, five workers
C9_Witness ==
    /\ calls.start = 2
    /\ calls.stop = 0
    /\ running
    /\ consumer_tasks = 1
    /\ BagCardinality(workers) = NumWorkers

\* the items a publish(events) call enqueues: the events the store does not
\* hold, in the order of the list
Enqueued(events, rows, received) ==
    SelectSeq([i \in 1..Len(events) |-> Item(events[i], received + i)],
              LAMBDA it : ~is_duplicate(rows, it.event.topic, it.event.event_id))

\* C10: a publish call on n events returns accepted + rejected = n and
\* rejected = duplicates_immediate; received grows by n, duplicate_dropped by
\* duplicates_immediate and the queue by accepted items; the rejected events
\* are those whose key is_duplicate reported, the others are appended to the
\* queue.
C10_PublishAccounting ==
    [][\A events \in Batches :
          publish(events) =>
              LET n == Len(events)
                  dup == {i \in 1..n : is_duplicate(store, events[i].topic,
                                                    events[i].event_id)}
              IN /\ result'.accepted + result'.rejected = n
                 /\ result'.rejected = result'.duplicates_immediate
                 /\ result'.rejected = Cardinality(dup)
                 /\ stats'.received = stats.received + n
                 /\ stats'.duplicate_dropped =
                        stats.duplicate_dropped + result'.duplicates_immediate
                 /\ stats'.unique_processed = stats.unique_processed
                 /\ Len(queue') = Len(queue) + result'.accepted
                 /\ queue' = queue \o Enqueued(events, store, stats.received)]_vars

\* a publish call on two events returned one accepted and one rejected
C10_Witness ==
    /\ result = [accepted |-> 1, rejected |-> 1, duplicates_immediate |-> 1]
    /\ stats.received = 2
    /\ calls.publish = 1

\* the events of a list that the store does not hold, in the order of the list
AcceptedOf(events, rows) ==
    SelectSeq(events, LAMBDA e : ~is_duplicate(rows, e.topic, e.event_id))

\* C11: publish order: the events a publish call accepts are appended to the
\* queue in the order of the input list; the queue is changed only by such an
\* append at its tail or by a worker taking its head, so no step reorders it;
\* and events are dequeued in the order they were enqueued: an event in the
\* hands of a worker was enqueued before every event still queued.
C11_PublishOrder ==
    [][/\ \A events \in Batches :
              publish(events) =>
                  /\ SubSeq(queue', 1, Len(queue)) = queue
                  /\ [i \in 1..(Len(queue') - Len(queue)) |->
                          queue'[Len(queue) + i].event] = AcceptedOf(events, store)
       /\ (queue' # queue /\ calls'.restart = calls.restart) =>
              \/ /\ Len(queue') > Len(queue)
                 /\ SubSeq(queue', 1, Len(queue)) = queue
              \/ /\ queue # <<>>
                 /\ queue' = Tail(queue)
                 /\ \E w \in BagToSet(workers') : w.pc = "got" /\ w.ev = Head(queue)
       /\ \A i, j \in 1..Len(queue') : i < j => queue'[i].seq < queue'[j].seq
       /\ \A w \in BagToSet(workers') :
              w.pc = "got" => \A i \in 1..Len(queue') : w.ev.seq < queue'[i].seq]_vars

\* one publish call enqueued two events; a worker holds the first of them and
\* the second is still at the head of the queue
C11_Witness ==
    /\ calls.publish = 1
    /\ result.accepted = 2
    /\ Len(queue) = 1
    /\ queue[1].seq = 2
    /\ \E w \in InFlight : w.ev.seq = 1

\* where a listed record sits in the table: rows are in insertion order
PositionOf(rows, rec) == CHOOSE n \in 1..Len(rows) : rows[n] = rec

\* C12: get_events(topic) returns exactly the records of the store whose
\* topic is the argument, each once, and get_events() those of all topics;
\* the list is in descending processed_at order, and of two records with
\* different processed_at the one inserted later comes first.
C12_TopicFiltering ==
    [][\A topic \in Topics \cup {NoTopic} :
          get_events(topic) =>
              LET want == {store[n] : n \in {m \in 1..Len(store) :
                                                topic = NoTopic \/ store[m].topic = topic}}
                  out == listing'
              IN /\ Len(out) = Cardinality(want)
                 /\ {out[i] : i \in 1..Len(out)} = want
                 /\ \A i, j \in 1..Len(out) :
                        i < j =>
                            /\ out[i].processed_at >= out[j].processed_at
                            /\ out[i].processed_at # out[j].processed_at =>
                                   PositionOf(store, out[i]) > PositionOf(store, out[j])]_vars

\* a store with two records of topic a, inserted at different times, and one
\* of topic b was listed for topic a: the later record first
C12_Witness ==
    /\ Len(listing) = 2
    /\ listing[1] = [topic |-> "a", event_id |-> "e2", timestamp |-> 1, processed_at |-> 1]
    /\ listing[2] = [topic |-> "a", event_id |-> "e1", timestamp |-> 1, processed_at |-> 0]
    /\ HasKey(store, "b", "e1")

\* C13: once start() has been called, the uptime get_stats() returns is the
\* time elapsed since that call.
C13_UptimeSinceStart ==
    startedAt # NoTime => get_stats.uptime = now - startedAt

\* the uptime get_stats() returns never decreases from one state of an
\* aggregator to the next
UptimeNonDecreasing ==
    [][calls'.restart = calls.restart => get_stats'.uptime >= get_stats.uptime]_vars

\* C14: when processing a dequeued event fails, the worker that took it stays
\* in the pool, back at its loop test, and the queue is left as it is; and
\* once a failure has happened, an event that is in the queue while a worker
\* is alive is eventually taken from the queue and handed to _process_event.
C14_WorkerFailureIsolation ==
    /\ [][calls'.fail = calls.fail + 1 =>
             /\ BagCardinality(workers') = BagCardinality(workers)
             /\ \E w \in InFlight :
                    workers' = (workers (-) One(w)) (+) One(Worker(w.gen, "loop", NoItem))
             /\ queue' = queue]_vars
    /\ \A s \in 1..MaxEvents :
           (calls.fail >= 1 /\ LiveWorkers # {} /\ s \in QueueSeqs)
               ~> (s \notin QueueSeqs \cup InFlightSeqs)

\* of two events published to a running aggregator the first failed in the
\* store; the second was processed all the same, and the pool is complete
C14_Witness ==
    /\ calls.fail = 1
    /\ running
    /\ Drained
    /\ stats.received = 2
    /\ stats.unique_processed = 1
    /\ stats.duplicate_dropped = 0
    /\ BagCardinality(workers) = NumWorkers

\* this step is a mark_processed call for key k
MarkedIn(k) == Len(markLog'[k]) = Len(markLog[k]) + 1

\* C15: first writer wins: a step other than clear() leaves every record of
\* the store as it is, in its place (records are only added); a
\* mark_processed call for a key that has a record, with the same or another
\* timestamp and at whatever time, returns false; and a call that returns
\* false leaves the whole store unchanged.
C15_RecordImmutability ==
    [][/\ calls'.clear = calls.clear =>
              /\ Len(store') >= Len(store)
              /\ \A n \in 1..Len(store) : store'[n] = store[n]
       /\ \A k \in Keys :
              MarkedIn(k) =>
                  /\ HasKey(store, k[1], k[2]) => markLog'[k][Len(markLog'[k])] = FALSE
                  /\ markLog'[k][Len(markLog'[k])] = FALSE => store' = store]_vars

\* a key marked at time 0 was marked again, refused, and at time 1 its record
\* still carries the first call's timestamp and processed_at
C15_Witness ==
    /\ FreshStore
    /\ now = 1
    /\ markLog[<<"a", "e1">>] = <<TRUE, FALSE>>
    /\ store = <<[topic |-> "a", event_id |-> "e1", timestamp |-> 1, processed_at |-> 0]>>

\* C16: no worker leaves the pool while the running flag is set or the queue
\* is non-empty; and under fair scheduling of the workers an event that is in
\* the queue of a running aggregator is eventually taken by a worker and
\* handed to _process_event, hence to mark_processed.
C16_ProcessingLiveness ==
    /\ [][BagCardinality(workers') < BagCardinality(workers) =>
             ~running /\ queue = <<>>]_vars
    /\ \A s \in 1..MaxEvents :
           (running /\ s \in QueueSeqs) ~> (s \notin QueueSeqs \cup InFlightSeqs)

\* a running aggregator that was never stopped has taken from its queue and
\* marked the events of two publish calls
C16_Witness ==
    /\ running
    /\ calls.stop = 0
    /\ calls.fail = 0
    /\ calls.publish = 2
    /\ startedAt # NoTime
    /\ Drained
    /\ stats.unique_processed + stats.duplicate_dropped = 2
    /\ \A k \in Keys : accepted[k] = published[k]

\* C17: the number of live worker tasks never exceeds the pool size, whatever
\* start() and stop() calls are made and however they interleave.
C17_FixedPoolSize == BagCardinality(workers) <= NumWorkers

\* C18: in every state, as long as no processing has failed, received =
\* unique_processed + duplicate_dropped + the events in the queue + the
\* events a worker has dequeued and not counted yet, so that each event is
\* counted once; and received >= unique_processed + duplicate_dropped in
\* every state, failures or not.
C18_InstantAccounting ==
    /\ calls.fail = 0 =>
           stats.received = stats.unique_processed + stats.duplicate_dropped
                                + Len(queue) + InFlightCount
    /\ stats.received >= stats.unique_processed + stats.duplicate_dropped

\* of two events received, one was counted at the fast path and the other is
\* in the hands of a worker, not counted yet
C18_Witness ==
    /\ calls.fail = 0
    /\ stats.received = 2
    /\ stats.duplicate_dropped = 1
    /\ result.duplicates_immediate = 1
    /\ InFlightCount = 1
    /\ queue = <<>>

\* C19: an event is rejected at the fast path only when the store holds a
\* record of its key, so a key with a rejected event has a record; and once
\* the queue has drained, every key handed to publish has a record.
C19_NoUniqueEventLost ==
    \A k \in Keys :
        /\ published[k] > accepted[k] => HasKey(store, k[1], k[2])
        /\ (Drained /\ published[k] >= 1) => HasKey(store, k[1], k[2])

\* two keys were published: one had a record and its event was rejected at
\* the fast path, the other was enqueued; the queue has drained and both keys
\* have a record
C19_Witness ==
    /\ Drained
    /\ stats.received = 2
    /\ \E k \in Keys : published[k] = 1 /\ accepted[k] = 0
    /\ \E k \in Keys : published[k] = 1 /\ accepted[k] = 1 /\ markLog[k] = <<TRUE>>
    /\ Len(store) = 2

\* the sum of the counts of a topic -> count mapping
RECURSIVE SumOf(_)
SumOf(f) ==
    IF DOMAIN f = {} THEN 0
    ELSE LET t == CHOOSE x \in DOMAIN f : TRUE
         IN f[t] + SumOf([x \in DOMAIN f \ {t} |-> f[x]])

\* C20: with the aggregator the only writer of its store and no clear(),
\* unique_processed is the number of records inserted since the aggregator
\* was built (mark and counter update are one step, so no worker is ever
\* between them); hence on a store that was empty then, once drained, the
\* per-topic counts get_stats() returns add up to unique_processed.
C20_CounterStoreAgreement ==
    /\ stats.unique_processed = Len(store) - Cardinality(priorKeys)
    /\ (FreshStore /\ Drained) =>
           /\ SumOf(get_stats.topics) = get_stats.unique_processed
           /\ store_get_stats(store).total_unique = get_stats.unique_processed

\* an aggregator built on an empty store has drained two events of different
\* topics; get_stats() reports one record per topic
C20_Witness ==
    /\ FreshStore
    /\ Drained
    /\ get_stats.unique_processed = 2
    /\ DOMAIN get_stats.topics = {"a", "b"}
    /\ \A t \in {"a", "b"} : get_stats.topics[t] = 1

====
